---- MODULE Spec2Model ----
(***************************************************************************)
(* Tournament Progression Engine of the valorant-s23-portal:               *)
(*   - the Standings & Elimination Calculator (utils/standings.ts),        *)
(*   - the Match Outcome Resolver and its inline bracket advancement       *)
(*     (app/api/admin/maps/save/route.ts),                                 *)
(*   - the admin bracket editor and score editor (admin page).             *)
(* The persisted tables (teams, matches, match_maps) are the state.        *)
(***************************************************************************)
EXTENDS Integers, Sequences, FiniteSets, TLC

VARIABLES
  buckets,     \* middleware: rate-limit buckets by <<ip, key>>
  now,         \* middleware: Date.now(), in minutes
  teams,       \* table teams
  matches,     \* table matches (row id = position)
  match_maps,  \* table match_maps
  standings,   \* rows rendered by the standings page, <<>> before a load
  last,        \* the map save served last, NoRequest once anything else ran
  req          \* map-save requests in flight (their position and locals)

dbvars == <<teams, matches, match_maps>>
mwvars == <<buckets, now>>
vars == <<teams, matches, match_maps, standings, last, req, buckets, now>>

\* SQL NULL / JS null of a nullable integer column.  Team ids are positive,
\* so the falsy test (!x) and the comparison with null coincide on 0.
NULL == 0

\* ---------------------------------------------------------------- bounds
MaxTeams == 2
MaxMatches == 1
MaxMapRows == 1
\* map indexes 0..MaxMapIndex are scored
MaxMapIndex == 1
\* results are entered for playoff rounds 1..MaxRound
MaxRound == 1
\* bracket positions 1..MaxPos are worked on by the administrator
MaxPos == 1
\* map-save requests in flight at once
MaxRequests == 1
\* the elimination inputs: teams entered, fixtures scheduled
ElimTeams == 7
ElimMatches == 3

\* ------------------------------------------------------- generic helpers
NoRequest == [op |-> "none", id |-> 0, adv |-> <<>>, side |-> "none"]

Min(a, b) == IF a < b THEN a ELSE b

\* String.prototype.toLowerCase on the spellings that occur in the tables.
ToLower(s) ==
  CASE s = "Regular" -> "regular"
    [] s = "Completed" -> "completed"
    [] OTHER -> s

\* ============================================================ standings.ts
\* byTeam initialisation (teams.forEach): one zeroed row per team id.
ZeroRow(t) ==
  [id |-> t.id, group_name |-> t.group_name, played |-> 0, wins |-> 0,
   losses |-> 0, points |-> 0, pd |-> 0, remaining |-> 0, eliminated |-> FALSE]

\* byTeam kept from the previous call instead of built anew.
byTeamInit_KeptAcrossCalls(ts) ==
  [k \in {ts[i].id : i \in DOMAIN ts} |->
     IF \E j \in DOMAIN standings : standings[j].id = k
     THEN standings[CHOOSE j \in DOMAIN standings : standings[j].id = k]
     ELSE ZeroRow(ts[CHOOSE i \in DOMAIN ts : ts[i].id = k])]

byTeamInit(ts) ==
  [k \in {ts[i].id : i \in DOMAIN ts} |->
     ZeroRow(ts[CHOOSE i \in DOMAIN ts : ts[i].id = k /\ \A j \in DOMAIN ts : ts[j].id = k => j <= i])]

\* regs = matches.filter(match_type lower-cased is "regular").
regs(ms) == SelectSeq(ms, LAMBDA m : ToLower(m.match_type) = "regular")

\* roundAgg.get(id) || {t1:0,t2:0}: summed rounds of the map rows of a match.
RECURSIVE roundAgg(_, _, _)
roundAgg(maps, id, i) ==
  IF i > Len(maps) THEN [t1 |-> 0, t2 |-> 0]
  ELSE LET rest == roundAgg(maps, id, i + 1)
       IN IF maps[i].match_id = id
          THEN [t1 |-> maps[i].team1_rounds + rest.t1, t2 |-> maps[i].team2_rounds + rest.t2]
          ELSE rest

\* Score resolution of one match (standings.ts lines 57-59).
score_t1(m, maps) ==
  LET agg == roundAgg(maps, m.id, 1) IN IF agg.t1 > 0 THEN agg.t1 ELSE m.score_t1
score_t2(m, maps) ==
  LET agg == roundAgg(maps, m.id, 1) IN IF agg.t2 > 0 THEN agg.t2 ELSE m.score_t2

\* played() without the maps_played signal.
played_NoMapsPlayed(m, maps) ==
  \/ ToLower(m.status) = "completed"
  \/ score_t1(m, maps) + score_t2(m, maps) > 0
  \/ m.is_forfeit = 1

\* "played" predicate (line 62).
played(m, maps) ==
  \/ ToLower(m.status) = "completed"
  \/ score_t1(m, maps) + score_t2(m, maps) > 0
  \/ m.maps_played > 0
  \/ m.is_forfeit = 1

\* MatchPoints() without the cap at 12.
MatchPoints_NoCap(own, opp) == IF own > opp THEN 15 ELSE own

\* Points of the side with score own against score opp (lines 66-67).
MatchPoints(own, opp) == IF own > opp THEN 15 ELSE Min(own, 12)

\* The accumulation with the round difference credited to the winner only.
AddPlayed_PdForWinnerOnly(row, own, opp) ==
  [row EXCEPT !.played = @ + 1,
              !.points = @ + MatchPoints(own, opp),
              !.pd = IF own > opp THEN @ + (own - opp) ELSE @,
              !.wins = IF own > opp THEN @ + 1 ELSE @,
              !.losses = IF opp > own THEN @ + 1 ELSE @]

\* Accumulate one side of a played match into its row (lines 64-78).
AddPlayed(row, own, opp) ==
  [row EXCEPT !.played = @ + 1,
              !.points = @ + MatchPoints(own, opp),
              !.pd = @ + (own - opp),
              !.wins = IF own > opp THEN @ + 1 ELSE @,
              !.losses = IF opp > own THEN @ + 1 ELSE @]

\* The forEach body counting a match for its listed side when the other
\* side is not among the teams.
TallyMatch_CountsListedSide(bt, m, maps) ==
  IF m.team1_id \notin DOMAIN bt THEN bt
  ELSE LET s1 == score_t1(m, maps)
           s2 == score_t2(m, maps)
       IN IF played(m, maps)
          THEN LET b1 == [bt EXCEPT ![m.team1_id] = AddPlayed(@, s1, s2)]
               IN IF m.team2_id \in DOMAIN bt
                  THEN [b1 EXCEPT ![m.team2_id] = AddPlayed(@, s2, s1)] ELSE b1
          ELSE LET b1 == [bt EXCEPT ![m.team1_id].remaining = @ + 1]
               IN IF m.team2_id \in DOMAIN bt
                  THEN [b1 EXCEPT ![m.team2_id].remaining = @ + 1] ELSE b1

\* regs.forEach body (lines 52-83) applied to the accumulator bt.
TallyMatch(bt, m, maps) ==
  IF m.team1_id \notin DOMAIN bt \/ m.team2_id \notin DOMAIN bt THEN bt
  ELSE LET s1 == score_t1(m, maps)
           s2 == score_t2(m, maps)
       IN IF played(m, maps)
          THEN LET b1 == [bt EXCEPT ![m.team1_id] = AddPlayed(@, s1, s2)]
               IN [b1 EXCEPT ![m.team2_id] = AddPlayed(@, s2, s1)]
          ELSE LET b1 == [bt EXCEPT ![m.team1_id].remaining = @ + 1]
               IN [b1 EXCEPT ![m.team2_id].remaining = @ + 1]

RECURSIVE Tally(_, _, _, _)
Tally(bt, rs, maps, i) ==
  IF i > Len(rs) THEN bt ELSE Tally(TallyMatch(bt, rs[i], maps), rs, maps, i + 1)

\* Object.values(byTeam): integer keys enumerate in ascending order.
RECURSIVE ObjectValues(_)
ObjectValues(bt) ==
  IF DOMAIN bt = {} THEN <<>>
  ELSE LET k == CHOOSE x \in DOMAIN bt : \A y \in DOMAIN bt : x <= y
       IN <<bt[k]>> \o ObjectValues([y \in DOMAIN bt \ {k} |-> bt[y]])

\* The comparator looking at points alone.
Before_PointsOnly(a, b) == a.points > b.points

\* The sort comparator (lines 85-88): TRUE when a must precede b.
Before(a, b) == IF b.points # a.points THEN a.points > b.points ELSE a.pd > b.pd

\* Array.prototype.sort is stable: insertion after the last row that is not
\* strictly worse.
RECURSIVE InsertRow(_, _)
InsertRow(s, r) ==
  IF s = <<>> THEN <<r>>
  ELSE IF Before(r, s[1]) THEN <<r>> \o s
       ELSE <<s[1]>> \o InsertRow(Tail(s), r)

RECURSIVE sorted(_)
sorted(rows) ==
  IF rows = <<>> THEN <<>>
  ELSE InsertRow(sorted(SubSeq(rows, 1, Len(rows) - 1)), rows[Len(rows)])

\* sorted[5]?.points ?? 0 (0-based index 5).
sixth(rows) == IF Len(rows) >= 6 THEN rows[6].points ELSE 0

\* lines 90-93
Eliminate(rows) ==
  [i \in DOMAIN rows |->
     [rows[i] EXCEPT !.eliminated = (rows[i].points + rows[i].remaining * 15 < sixth(rows))]]

computeStandings(ts, ms, maps) ==
  Eliminate(sorted(ObjectValues(Tally(byTeamInit(ts), regs(ms), maps, 1))))

\* ============================================== standings page (inputs)
\* Round counts of one stored map row and aggregate scores a match row can
\* store (a map-win count).
RoundPairs == {<<0, 0>>, <<13, 0>>, <<0, 13>>, <<15, 13>>}
StoredPairs == {<<0, 0>>, <<1, 0>>, <<0, 1>>, <<1, 1>>}

SeqsUpTo(S, n) == UNION {[1..k -> S] : k \in 0..n}

\* The id column: rows are numbered in insertion order.
WithIds(s) == [i \in DOMAIN s |-> s[i] @@ [id |-> i]]

MatchRow(a, b, type, st, sc, mp, ff) ==
  [team1_id |-> a, team2_id |-> b, match_type |-> type, status |-> st,
   score_t1 |-> sc[1], score_t2 |-> sc[2], maps_played |-> mp, is_forfeit |-> ff]

\* A fixture list: every pair of distinct teams meets at most once, fixtures
\* listed in schedule order.
PairKey(m) == m.team1_id * 100 + m.team2_id
Fixtures(q) == \A i, j \in DOMAIN q : i < j => PairKey(q[i]) < PairKey(q[j])

\* Regular matches in every combination of the four "played" signals, one
\* row spelled with capitals and one playoff row per pairing.
MatchDomain ==
  {MatchRow(a, b, "regular", st, sc, mp, ff) :
     a \in 1..MaxTeams, b \in 1..MaxTeams, st \in {"scheduled", "completed"},
     sc \in StoredPairs, mp \in {0, 1}, ff \in {0, 1}}
  \cup {MatchRow(a, b, "Regular", "Completed", <<1, 0>>, 0, 0) :
          a \in 1..MaxTeams, b \in 1..MaxTeams}
  \cup {MatchRow(a, b, "playoff", "completed", <<1, 0>>, 1, 0) :
          a \in 1..MaxTeams, b \in 1..MaxTeams}

MatchInputs ==
  {WithIds(q) : q \in {s \in SeqsUpTo({m \in MatchDomain : m.team1_id < m.team2_id}, MaxMatches) :
                         Fixtures(s)}}

MapRowDomain ==
  {[match_id |-> id, team1_rounds |-> rp[1], team2_rounds |-> rp[2]] :
     id \in 1..MaxMatches, rp \in RoundPairs}

\* Map rows are read back in (match_id, rounds) order.
RowKey(r) == (r.match_id * 100 + r.team1_rounds) * 100 + r.team2_rounds
MapInputs ==
  {s \in SeqsUpTo(MapRowDomain, MaxMapRows) :
     \A i, j \in DOMAIN s : i < j => RowKey(s[i]) <= RowKey(s[j])}

TeamInputs == {[i \in 1..n |-> [id |-> i, group_name |-> "A"]] : n \in 1..MaxTeams}

InitStandings ==
  /\ teams \in TeamInputs
  /\ matches \in MatchInputs
  /\ match_maps \in MapInputs
  /\ standings = <<>>
  /\ last = NoRequest /\ req = <<>>
  /\ buckets = <<>> /\ now = 0

\* getServerSideProps of the standings page: read the three tables, compute.
LoadStandings ==
  /\ standings = <<>>
  /\ standings' = computeStandings(teams, matches, match_maps)
  /\ UNCHANGED <<mwvars, dbvars, last, req>>

NextStandings == LoadStandings

SpecStandings == InitStandings /\ [][NextStandings]_vars

\* ------------------------------------------------ expected table (claims)
Loaded == standings # <<>>
Listed(id) == \E i \in DOMAIN teams : teams[i].id = id

\* The regular matches between two listed teams, as indices into matches.
Counted ==
  {i \in DOMAIN matches :
     /\ matches[i].match_type \in {"regular", "Regular"}
     /\ Listed(matches[i].team1_id) /\ Listed(matches[i].team2_id)}

MapRowsOf(id) == {k \in DOMAIN match_maps : match_maps[k].match_id = id}

RECURSIVE SumOver(_, _)
SumOver(S, f) ==
  IF S = {} THEN 0 ELSE LET x == CHOOSE y \in S : TRUE IN f[x] + SumOver(S \ {x}, f)

RoundSum1(id) == SumOver(MapRowsOf(id), [k \in MapRowsOf(id) |-> match_maps[k].team1_rounds])
RoundSum2(id) == SumOver(MapRowsOf(id), [k \in MapRowsOf(id) |-> match_maps[k].team2_rounds])

\* The sides a team holds: <<i, 1>> when it is team1 of match i, <<i, 2>> when
\* it is team2.
SidesOf(t, S) ==
  {<<i, 1>> : i \in {j \in S : matches[j].team1_id = t}}
  \cup {<<i, 2>> : i \in {j \in S : matches[j].team2_id = t}}

\* Resolved scores of match i as the calculator uses them.
Res1(i) == score_t1(matches[i], match_maps)
Res2(i) == score_t2(matches[i], match_maps)
Own(sd) == IF sd[2] = 1 THEN Res1(sd[1]) ELSE Res2(sd[1])
Opp(sd) == IF sd[2] = 1 THEN Res2(sd[1]) ELSE Res1(sd[1])

\* Scores as the design resolves them: the map rows when there are any, the
\* stored aggregate only when there are none.
RowScore1(i) == IF MapRowsOf(matches[i].id) # {} THEN RoundSum1(matches[i].id) ELSE matches[i].score_t1
RowScore2(i) == IF MapRowsOf(matches[i].id) # {} THEN RoundSum2(matches[i].id) ELSE matches[i].score_t2
RowOwn(sd) == IF sd[2] = 1 THEN RowScore1(sd[1]) ELSE RowScore2(sd[1])
RowOpp(sd) == IF sd[2] = 1 THEN RowScore2(sd[1]) ELSE RowScore1(sd[1])
RowSignal(i) ==
  \/ matches[i].status \in {"completed", "Completed"}
  \/ RowScore1(i) + RowScore2(i) > 0
  \/ matches[i].maps_played > 0
  \/ matches[i].is_forfeit = 1

\* C7: a regular match with at least one map row is scored, on both sides,
\* by the summed rounds of its rows; the stored score_t1/score_t2 count only
\* for a match without rows.  Stated on the table: every team's pd is the sum
\* of (own - opponent) over its played matches with the scores so resolved.
C7_ScoresFromMapRows ==
  Loaded =>
    \A k \in DOMAIN standings :
      LET S == SidesOf(standings[k].id, {i \in Counted : RowSignal(i)})
      IN standings[k].pd = SumOver(S, [sd \in S |-> RowOwn(sd) - RowOpp(sd)])

\* The four signals of the "played" predicate, restated.
Signal(i) ==
  \/ matches[i].status \in {"completed", "Completed"}
  \/ Res1(i) + Res2(i) > 0
  \/ matches[i].maps_played > 0
  \/ matches[i].is_forfeit = 1

\* C8: per played regular match the strictly higher score earns 15 points,
\* any other side min(own score, 12); wins and losses only on a strict
\* difference; pd moves by own minus opponent score; unplayed matches add
\* nothing to points, pd, wins or losses.
C8_PointsRule ==
  Loaded =>
    \A k \in DOMAIN standings :
      LET r == standings[k]
          S == SidesOf(r.id, {i \in Counted : played(matches[i], match_maps)})
      IN /\ r.points = SumOver(S, [sd \in S |-> IF Own(sd) > Opp(sd) THEN 15
                                                 ELSE IF Own(sd) < 12 THEN Own(sd) ELSE 12])
         /\ r.pd = SumOver(S, [sd \in S |-> Own(sd) - Opp(sd)])
         /\ r.wins = Cardinality({sd \in S : Own(sd) > Opp(sd)})
         /\ r.losses = Cardinality({sd \in S : Opp(sd) > Own(sd)})

\* A 15-13 match: 15 points and pd +2 for the winner, min(13, 12) = 12 points
\* and pd -2 for the loser.
C8_Witness ==
  /\ Loaded
  /\ \E a, b \in DOMAIN standings :
       /\ standings[a].points = 15 /\ standings[a].pd = 2 /\ standings[a].wins = 1
       /\ standings[b].points = 12 /\ standings[b].pd = -2 /\ standings[b].losses = 1

\* C9: a regular match is played iff one of the four signals holds, and each
\* of its two sides adds 1 to played when it is, 1 to remaining when it is
\* not, never to both.
C9_PlayedPredicate ==
  Loaded =>
    \A k \in DOMAIN standings :
      LET r == standings[k]
      IN /\ r.played = Cardinality(SidesOf(r.id, {i \in Counted : Signal(i)}))
         /\ r.remaining = Cardinality(SidesOf(r.id, {i \in Counted : ~Signal(i)}))

\* status scheduled, stored 0-0, no map rows, maps_played 1: counted as played.
C9_Witness ==
  /\ Loaded
  /\ \E i \in Counted :
       /\ matches[i].status = "scheduled" /\ matches[i].is_forfeit = 0
       /\ matches[i].score_t1 = 0 /\ matches[i].score_t2 = 0
       /\ matches[i].maps_played = 1 /\ MapRowsOf(matches[i].id) = {}
       /\ \E k \in DOMAIN standings :
            standings[k].id = matches[i].team1_id /\ standings[k].played = 1
                /\ standings[k].remaining = 0

\* =================================== standings page, several groups
\* ElimTeams teams, the first k of them in group A and the others in group
\* B; up to ElimMatches fixtures, each unplayed or completed 2-1 / 1-2 on
\* map wins with no map rows stored.
ElimTeamInputs ==
  {[i \in 1..ElimTeams |-> [id |-> i, group_name |-> IF i <= k THEN "A" ELSE "B"]] :
     k \in 0..ElimTeams}

ElimMatchDomain ==
  {MatchRow(a, b, "regular", "scheduled", <<0, 0>>, 0, 0) :
     a \in 1..ElimTeams, b \in 1..ElimTeams}
  \cup {MatchRow(a, b, "regular", "completed", sc, sc[1] + sc[2], 0) :
          a \in 1..ElimTeams, b \in 1..ElimTeams, sc \in {<<2, 1>>, <<1, 2>>}}

ElimMatchInputs ==
  {WithIds(q) : q \in {s \in SeqsUpTo({m \in ElimMatchDomain : m.team1_id < m.team2_id}, ElimMatches) :
                         Fixtures(s)}}

InitElim ==
  /\ teams \in ElimTeamInputs
  /\ matches \in ElimMatchInputs
  /\ match_maps = <<>>
  /\ standings = <<>>
  /\ last = NoRequest /\ req = <<>>
  /\ buckets = <<>> /\ now = 0

SpecElim == InitElim /\ [][NextStandings]_vars

\* The rows of one group, in table order (the page's grouping of the rows).
GroupRows(g) == SelectSeq(standings, LAMBDA r : r.group_name = g)
GroupSixth(g) == IF Len(GroupRows(g)) >= 6 THEN GroupRows(g)[6].points ELSE 0

\* C6: a team is flagged eliminated iff points + 15 * remaining is below the
\* points of the 6th-ranked row of its own group (0 when the group has fewer
\* than 6 rows), also when several groups are computed in one call.
C6_EliminatedAgainstOwnGroup ==
  Loaded =>
    \A k \in DOMAIN standings :
      standings[k].eliminated
        = (standings[k].points + 15 * standings[k].remaining
             < GroupSixth(standings[k].group_name))

\* ================================================= resolver and bracket
\* Rows of table matches as the admin pages and the map-save route write
\* them; the id is the serial row number.
Round1Slots == 8

Teams == 1..MaxTeams
ActivePos == 1..MaxPos
MapIndexes == 0..MaxMapIndex

NewMatch(type, a, b, round, pos, wk) ==
  [team1_id |-> a, team2_id |-> b, match_type |-> type, status |-> "scheduled",
   score_t1 |-> 0, score_t2 |-> 0, maps_played |-> 0, is_forfeit |-> 0,
   winner_id |-> NULL, playoff_round |-> round, bracket_pos |-> pos, week |-> wk]

\* insert into matches: the row takes the next serial id
InsertMatch(ms, row) == Append(ms, row @@ [id |-> Len(ms) + 1])

\* from('matches').update(patch).eq('id', id)
UpdateMatch(ms, id, patch) == [ms EXCEPT ![id] = patch @@ @]

\* ------------------------------------------- route.ts, statement by statement
\* from('match_maps').delete().eq('match_id', id).eq('map_index', idx)
DeleteMap(maps, id, idx) ==
  SelectSeq(maps, LAMBDA r : ~(r.match_id = id /\ r.map_index = idx))

\* from('match_maps').insert({match_id, map_index, winner_id, ...}). A table
\* has no row order of its own; the rows are kept by (match_id, map_index).
MapKey(r) == r.match_id * 100 + r.map_index
InsertMap(maps, id, idx, w) ==
  LET row == [match_id |-> id, map_index |-> idx, winner_id |-> w]
  IN SelectSeq(maps, LAMBDA r : MapKey(r) <= MapKey(row)) \o <<row>>
       \o SelectSeq(maps, LAMBDA r : MapKey(r) > MapKey(row))

\* from('match_maps').select('winner_id').eq('match_id', id)
allMaps(maps, id) == SelectSeq(maps, LAMBDA r : r.match_id = id)

t1Wins(am, mi) == Len(SelectSeq(am, LAMBDA m : m.winner_id = mi.team1_id))
t2Wins(am, mi) == Len(SelectSeq(am, LAMBDA m : m.winner_id = mi.team2_id))

finalWinner(am, mi) ==
  IF t1Wins(am, mi) > t2Wins(am, mi) THEN mi.team1_id
  ELSE IF t2Wins(am, mi) > t1Wins(am, mi) THEN mi.team2_id
  ELSE NULL

payload_CountsDecidedMaps(am, mi) ==
  [score_t1 |-> t1Wins(am, mi), score_t2 |-> t2Wins(am, mi),
   maps_played |-> t1Wins(am, mi) + t2Wins(am, mi),
   winner_id |-> finalWinner(am, mi), status |-> "completed"]

payload(am, mi) ==
  [score_t1 |-> t1Wins(am, mi), score_t2 |-> t2Wins(am, mi),
   maps_played |-> Len(am),
   winner_id |-> finalWinner(am, mi), status |-> "completed"]

\* matchInfo.playoff_round || 1, matchInfo.bracket_pos || 0
roundOf(mi) == IF mi.playoff_round = NULL THEN 1 ELSE mi.playoff_round
posOf(mi) == IF mi.bracket_pos = NULL THEN 0 ELSE mi.bracket_pos

\* the guard of the propagation block: a playoff match with a winner and a
\* bracket position
Advances(mi, p) ==
  mi.match_type = "playoff" /\ p.winner_id # NULL /\ posOf(mi) # 0

\* the rows the nextMatch query matches (limit(1) returns one of them)
nextMatch(ms, round, pos) ==
  {n \in DOMAIN ms : /\ ms[n].match_type = "playoff"
                     /\ ms[n].playoff_round = round + 1
                     /\ ms[n].bracket_pos = pos}

\* the side the route picks from the row nm it has read
sideOf_Team2First(nm) ==
  IF nm.team2_id = NULL THEN "team2_id"
  ELSE IF nm.team1_id = NULL THEN "team1_id"
  ELSE "none"

sideOf(nm) ==
  IF nm.team1_id = NULL THEN "team1_id"
  ELSE IF nm.team2_id = NULL THEN "team2_id"
  ELSE "none"

\* from('matches').update(updates).eq('id', nm.id), updates built from the
\* row nm as it was read; nothing is sent when updates is empty
writeNext(ms, nm, winnerTeam) ==
  CASE sideOf(nm) = "team1_id" -> UpdateMatch(ms, nm.id, [team1_id |-> winnerTeam])
    [] sideOf(nm) = "team2_id" -> UpdateMatch(ms, nm.id, [team2_id |-> winnerTeam])
    [] OTHER -> ms

\* from('matches').insert({team1_id: null, team2_id: winnerTeam, ...})
insertNext(ms, mi, winnerTeam) ==
  InsertMatch(ms, NewMatch("playoff", NULL, winnerTeam, roundOf(mi) + 1,
                           posOf(mi), mi.week))

\* ------------------------------------------------ the admin's requests
\* the matches a result can be entered for
Scorable(id) ==
  /\ id \in DOMAIN matches
  /\ \/ matches[id].match_type = "regular"
     \/ /\ matches[id].playoff_round <= MaxRound
        /\ matches[id].bracket_pos \in ActivePos

\* Schedule manager, Create Match: both teams chosen.
ScheduleMatch(a, b) ==
  /\ a # NULL /\ b # NULL
  /\ Cardinality({i \in DOMAIN matches : matches[i].match_type = "regular"}) < MaxMatches
  /\ matches' = InsertMatch(matches, NewMatch("regular", a, b, NULL, NULL, 1))
  /\ last' = NoRequest
  /\ UNCHANGED <<mwvars, teams, match_maps, standings, req>>

RECURSIVE BulkInsert(_, _, _)
BulkInsert(ms, i, n) ==
  IF i > n THEN ms
  ELSE BulkInsert(InsertMatch(ms, NewMatch("playoff", NULL, NULL, 1, i, 0)), i + 1, n)

\* Bracket editor, Create Round 1 Matches.
CreateRound1Matches ==
  LET existing == Cardinality({i \in DOMAIN matches : matches[i].playoff_round = 1})
  IN /\ matches' = BulkInsert(matches, existing + 1, Round1Slots)
     /\ last' = NoRequest
     /\ UNCHANGED <<mwvars, teams, match_maps, standings, req>>

\* one turn of the Seed Round 2 BYEs loop
SeedSlot(ms, i, byeTeam) ==
  LET existing == nextMatch(ms, 1, i)
  IN IF existing # {}
     THEN IF byeTeam # NULL
          THEN {UpdateMatch(ms, n, [team1_id |-> byeTeam]) : n \in existing}
          ELSE {ms}
     ELSE {InsertMatch(ms, NewMatch("playoff", byeTeam, NULL, 2, i, 0))}

RECURSIVE SeedFrom(_, _, _)
SeedFrom(ms, i, byes) ==
  IF i > Round1Slots THEN {ms}
  ELSE UNION {SeedFrom(m2, i + 1, byes) : m2 \in SeedSlot(ms, i, byes[i])}

ByeInputs ==
  {b \in [1..Round1Slots -> {NULL} \cup Teams] :
     \A i \in 1..Round1Slots : i \notin ActivePos => b[i] = NULL}

\* Bracket editor, Seed Round 2 BYEs.
SeedRound2Byes(round2Byes) ==
  /\ matches' \in SeedFrom(matches, 1, round2Byes)
  /\ last' = NoRequest
  /\ UNCHANGED <<mwvars, teams, match_maps, standings, req>>

\* Bracket editor, handleAssign: a team picked for one side of a slot.
handleAssign(matchId, which, teamId) ==
  /\ matchId \in DOMAIN matches
  /\ matches[matchId].match_type = "playoff"
  /\ matches[matchId].bracket_pos \in ActivePos
  /\ matches[matchId].playoff_round <= MaxRound + 1
  /\ matches' = IF which = "team1_id"
                THEN UpdateMatch(matches, matchId, [team1_id |-> teamId])
                ELSE UpdateMatch(matches, matchId, [team2_id |-> teamId])
  /\ last' = NoRequest
  /\ UNCHANGED <<mwvars, teams, match_maps, standings, req>>

\* Score editor, saveForfeitMatch. The button is enabled only with the
\* forfeit box ticked, so s1 = 13, s2 = 0 and the winner is team 1. The matches
\* offered are those of weeks 1..6. clearMatchDetails is not part of the
\* sources at hand: the map rows of the match are either removed or kept.
saveForfeitMatch(matchId, cleared) ==
  /\ matchId \in DOMAIN matches
  /\ matches[matchId].week \in 1..6
  /\ match_maps' = IF cleared
                   THEN SelectSeq(match_maps, LAMBDA r : r.match_id # matchId)
                   ELSE match_maps
  /\ matches' = UpdateMatch(matches, matchId,
                  [score_t1 |-> 13, score_t2 |-> 0,
                   winner_id |-> matches[matchId].team1_id,
                   status |-> "completed", maps_played |-> 0, is_forfeit |-> 1])
  /\ last' = NoRequest
  /\ UNCHANGED <<mwvars, teams, standings, req>>

\* POST /api/admin/maps/save served without interleaving.
ServeSave(matchId, index, winner_id) ==
  /\ matchId \in DOMAIN matches
  /\ LET maps1 == InsertMap(DeleteMap(match_maps, matchId, index), matchId, index, winner_id)
         mi == matches[matchId]
         p == payload(allMaps(maps1, matchId), mi)
         ms1 == UpdateMatch(matches, matchId, p)
         nxt == nextMatch(ms1, roundOf(mi), posOf(mi))
     IN /\ match_maps' = maps1
        /\ IF Advances(mi, p)
           THEN IF nxt # {}
                THEN \E n \in nxt :
                       /\ matches' = writeNext(ms1, ms1[n], p.winner_id)
                       /\ last' = [op |-> "saveMap", id |-> matchId,
                                   adv |-> <<roundOf(mi) + 1, posOf(mi), p.winner_id>>,
                                   side |-> sideOf(ms1[n])]
                ELSE /\ matches' = insertNext(ms1, mi, p.winner_id)
                     /\ last' = [op |-> "saveMap", id |-> matchId,
                                 adv |-> <<roundOf(mi) + 1, posOf(mi), p.winner_id>>,
                                 side |-> "created"]
           ELSE /\ matches' = ms1
                /\ last' = [op |-> "saveMap", id |-> matchId, adv |-> <<>>, side |-> "none"]
  /\ UNCHANGED <<mwvars, teams, standings, req>>

\* the same request, for the matches results are entered for
SaveMap(matchId, index, winner_id) ==
  Scorable(matchId) /\ ServeSave(matchId, index, winner_id)

TeamRows == [i \in Teams |-> [id |-> i, group_name |-> "A"]]

Init ==
  /\ teams = TeamRows
  /\ matches = <<>>
  /\ match_maps = <<>>
  /\ standings = <<>>
  /\ last = NoRequest
  /\ req = <<>>
  /\ buckets = <<>> /\ now = 0

\* The bracket editor and the results of the playoff matches.
Next ==
  \/ CreateRound1Matches
  \/ \E b \in ByeInputs : SeedRound2Byes(b)
  \/ \E id \in DOMAIN matches, which \in {"team1_id", "team2_id"}, t \in Teams :
       handleAssign(id, which, t)
  \/ \E id \in DOMAIN matches, idx \in MapIndexes, w \in {NULL} \cup Teams :
       SaveMap(id, idx, w)

Spec == Init /\ [][Next]_vars

\* The schedule manager and the score editor on the league matches.
NextScores ==
  \/ \E a, b \in Teams : ScheduleMatch(a, b)
  \/ \E id \in DOMAIN matches, c \in BOOLEAN : saveForfeitMatch(id, c)
  \/ \E id \in DOMAIN matches, idx \in MapIndexes, w \in {NULL} \cup Teams :
       SaveMap(id, idx, w)

SpecScores == Init /\ [][NextScores]_vars

\* --------------------------------- the route with its awaits as steps
\* A request in flight: its position in the handler (pc) and the locals
\* the later statements use.
NoRow == [id |-> 0]

Remove(q, i) == [k \in 1..(Len(q) - 1) |-> IF k < i THEN q[k] ELSE q[k + 1]]

\* the request arrives (line 20 passed)
Begin(matchId, index, winner_id) ==
  /\ Len(req) < MaxRequests
  /\ Scorable(matchId)
  /\ req' = Append(req, [pc |-> "delete", matchId |-> matchId, index |-> index,
                         winner_id |-> winner_id, matchInfo |-> NoRow,
                         payload |-> NoRow, nm |-> NoRow])
  /\ UNCHANGED <<mwvars, dbvars, standings, last>>

\* await delete (lines 21-24)
DeleteStep(i) ==
  /\ req[i].pc = "delete"
  /\ match_maps' = DeleteMap(match_maps, req[i].matchId, req[i].index)
  /\ req' = [req EXCEPT ![i].pc = "insert"]
  /\ UNCHANGED <<mwvars, teams, matches, standings, last>>

\* await insert (lines 26-36)
InsertStep(i) ==
  /\ req[i].pc = "insert"
  /\ match_maps' = InsertMap(match_maps, req[i].matchId, req[i].index, req[i].winner_id)
  /\ req' = [req EXCEPT ![i].pc = "read"]
  /\ UNCHANGED <<mwvars, teams, matches, standings, last>>

\* await the two selects (lines 55-63)
ReadStep(i) ==
  /\ req[i].pc = "read"
  /\ LET mi == matches[req[i].matchId]
     IN req' = [req EXCEPT ![i].pc = "update",
                           ![i].matchInfo = mi,
                           ![i].payload = payload(allMaps(match_maps, req[i].matchId), mi)]
  /\ UNCHANGED <<mwvars, dbvars, standings, last>>

\* await update of the match (line 73), then the guard of line 75
UpdateStep(i) ==
  /\ req[i].pc = "update"
  /\ matches' = UpdateMatch(matches, req[i].matchId, req[i].payload)
  /\ req' = IF Advances(req[i].matchInfo, req[i].payload)
            THEN [req EXCEPT ![i].pc = "next"]
            ELSE Remove(req, i)
  /\ UNCHANGED <<mwvars, teams, match_maps, standings, last>>

\* await the nextMatch select (lines 80-92)
NextStep(i) ==
  /\ req[i].pc = "next"
  /\ LET nxt == nextMatch(matches, roundOf(req[i].matchInfo), posOf(req[i].matchInfo))
     IN IF nxt = {}
        THEN req' = [req EXCEPT ![i].pc = "create"]
        ELSE \E n \in nxt :
               req' = IF sideOf(matches[n]) = "none"
                      THEN Remove(req, i)
                      ELSE [req EXCEPT ![i].pc = "write", ![i].nm = matches[n]]
  /\ UNCHANGED <<mwvars, dbvars, standings, last>>

\* await update of the successor (line 93)
WriteStep(i) ==
  /\ req[i].pc = "write"
  /\ matches' = writeNext(matches, req[i].nm, req[i].payload.winner_id)
  /\ req' = Remove(req, i)
  /\ UNCHANGED <<mwvars, teams, match_maps, standings, last>>

\* await insert of the successor (lines 96-108)
CreateStep(i) ==
  /\ req[i].pc = "create"
  /\ matches' = insertNext(matches, req[i].matchInfo, req[i].payload.winner_id)
  /\ req' = Remove(req, i)
  /\ UNCHANGED <<mwvars, teams, match_maps, standings, last>>

NextConc ==
  \/ CreateRound1Matches
  \/ \E id \in DOMAIN matches, which \in {"team1_id", "team2_id"}, t \in Teams :
       handleAssign(id, which, t)
  \/ \E id \in DOMAIN matches, idx \in MapIndexes, w \in {NULL} \cup Teams :
       Begin(id, idx, w)
  \/ \E i \in DOMAIN req : DeleteStep(i)
  \/ \E i \in DOMAIN req : InsertStep(i)
  \/ \E i \in DOMAIN req : ReadStep(i)
  \/ \E i \in DOMAIN req : UpdateStep(i)
  \/ \E i \in DOMAIN req : NextStep(i)
  \/ \E i \in DOMAIN req : WriteStep(i)
  \/ \E i \in DOMAIN req : CreateStep(i)

SpecConc == Init /\ [][NextConc]_vars

\* ============================================== claims on the resolver
SaveInputs == (DOMAIN matches) \X MapIndexes \X ({NULL} \cup Teams)

\* the map rows stored for match id
WinnerRows(id, team) ==
  {k \in DOMAIN match_maps : /\ match_maps[k].match_id = id
                             /\ match_maps[k].winner_id = team}
StoredRows(id) == {k \in DOMAIN match_maps : match_maps[k].match_id = id}

\* the rows at the slot a playoff match feeds: next round, same position
Successors(id) ==
  {n \in DOMAIN matches : /\ matches[n].match_type = "playoff"
                          /\ matches[n].playoff_round = matches[id].playoff_round + 1
                          /\ matches[n].bracket_pos = matches[id].bracket_pos}

C5_FirstEmptySide ==
  [][\A x \in SaveInputs :
       (/\ SaveMap(x[1], x[2], x[3])
        /\ matches'[x[1]].match_type = "playoff"
        /\ matches'[x[1]].winner_id # NULL)
       => \A n \in Successors(x[1]) :
            IF matches[n].team1_id = NULL
            THEN matches'[n] = [matches[n] EXCEPT !.team1_id = matches'[x[1]].winner_id]
            ELSE IF matches[n].team2_id = NULL
            THEN matches'[n] = [matches[n] EXCEPT !.team2_id = matches'[x[1]].winner_id]
            ELSE matches'[n] = matches[n]]_vars

\* the successor held another team on side 1, and the save put the winner
\* on side 2
C5_Witness ==
  /\ last.op = "saveMap"
  /\ last.side = "team2_id"
  /\ \E n \in Successors(last.id) :
       /\ matches[n].team2_id = last.adv[3]
       /\ matches[n].team1_id \notin {NULL, last.adv[3]}

\* the playoff slots and who sits in them
Bracket ==
  {<<matches[n].playoff_round, matches[n].bracket_pos,
     matches[n].team1_id, matches[n].team2_id>> :
     n \in {k \in DOMAIN matches : matches[k].match_type = "playoff"}}

\* C1: applying the same advancement (target round, position, team) a second
\* time leaves the bracket as the first application left it.
C1_IdempotentAdvancement ==
  [][(/\ last.op = "saveMap" /\ last.adv # <<>>
      /\ last'.op = "saveMap" /\ last'.adv = last.adv)
     => Bracket' = Bracket]_vars

\* the sides of the successor slot held by a team of match id
Held(id) ==
  {<<n, sd>> \in Successors(id) \X {"team1_id", "team2_id"} :
     /\ matches[n][sd] # NULL
     /\ matches[n][sd] \in {matches[id].team1_id, matches[id].team2_id}}

\* C3: once a save of a playoff match has placed its winner in the successor
\* slot, a further save for the same match leaves that slot with at most one
\* side held by a team of the match.
C3_NoDoubleAdvance ==
  [][\A x \in SaveInputs :
       (/\ last.op = "saveMap" /\ last.id = x[1] /\ last.side # "none"
        /\ Cardinality(Held(x[1])) = 1
        /\ SaveMap(x[1], x[2], x[3]))
       => Cardinality(Held(x[1]))' <= 1]_vars

\* C10: a completed match whose scores differ has a winner_id.
C10_CompletedHasWinner ==
  \A i \in DOMAIN matches :
    (matches[i].status = "completed" /\ matches[i].score_t1 # matches[i].score_t2)
      => matches[i].winner_id # NULL

\* C2: the write of an advancement into the successor row never replaces a
\* side that is occupied at the time of the write.
C2_WriteOnlyIfStillEmpty ==
  [][\A i \in DOMAIN req :
       WriteStep(i) =>
         \A n \in DOMAIN matches :
           /\ matches[n].team1_id # NULL => matches'[n].team1_id = matches[n].team1_id
           /\ matches[n].team2_id # NULL => matches'[n].team2_id = matches[n].team2_id]_vars

\* C11: a save whose map winner is a team other than the two teams of the
\* match is rejected: the map rows and the matches (bracket included) stay as
\* they were.
C11_ForeignWinnerRejected ==
  [][\A x \in SaveInputs :
       (/\ x[3] # NULL
        /\ x[3] \notin {matches[x[1]].team1_id, matches[x[1]].team2_id}
        /\ SaveMap(x[1], x[2], x[3]))
       => (match_maps' = match_maps /\ matches' = matches)]_vars

\* C12: when a save advances a winner and the successor slot holds no match,
\* exactly one match appears there, with the winner in team1_id and team2_id
\* null.
C12_CreatedWithWinnerFirst ==
  [][\A x \in SaveInputs :
       (/\ SaveMap(x[1], x[2], x[3])
        /\ matches'[x[1]].match_type = "playoff"
        /\ matches'[x[1]].winner_id # NULL
        /\ Successors(x[1]) = {})
       => /\ Cardinality(Successors(x[1])') = 1
          /\ \A n \in Successors(x[1])' :
               /\ matches'[n].team1_id = matches'[x[1]].winner_id
               /\ matches'[n].team2_id = NULL]_vars

\* C17: Seed Round 2 BYEs leaves every occupied side of a round-2 match as
\* it is; the bye team goes only to a side that is empty.
C17_SeedKeepsOccupiedSides ==
  [][\A b \in ByeInputs :
       SeedRound2Byes(b) =>
         \A n \in DOMAIN matches :
           /\ matches[n].team1_id # NULL => matches'[n].team1_id = matches[n].team1_id
           /\ matches[n].team2_id # NULL => matches'[n].team2_id = matches[n].team2_id]_vars

\* the record the claim describes for a forfeit of match id won by team t
ForfeitRecorded(id, t) ==
  /\ matches'[id].winner_id = t
  /\ matches'[id].score_t1 = (IF t = matches[id].team1_id THEN 13 ELSE 0)
  /\ matches'[id].score_t2 = (IF t = matches[id].team1_id THEN 0 ELSE 13)
  /\ matches'[id].maps_played = 0
  /\ matches'[id].is_forfeit = 1
  /\ matches'[id].status = "completed"
  /\ \A k \in DOMAIN match_maps' : match_maps'[k].match_id # id

\* C18: for a match offered by the score editor, a forfeit can be saved for
\* either of its two teams, and it records that team as winner_id with 13 for
\* it and 0 for the other, maps_played 0, is_forfeit set, status completed and
\* no map rows left for the match.
C18_ForfeitForEitherTeam ==
  \A id \in DOMAIN matches :
    matches[id].week \in 1..6 =>
      \A t \in {matches[id].team1_id, matches[id].team2_id} :
        ENABLED (\E c \in BOOLEAN : saveForfeitMatch(id, c) /\ ForfeitRecorded(id, t))

\* The map-save route, its awaits as steps, while the bracket editor sets up
\* round 1 and creates the round-2 matches (Seed Round 2 BYEs, no bye chosen).
NoByes == [i \in 1..Round1Slots |-> NULL]

NextRace ==
  \/ CreateRound1Matches
  \/ SeedRound2Byes(NoByes)
  \/ \E id \in DOMAIN matches, which \in {"team1_id", "team2_id"}, t \in Teams :
       matches[id].playoff_round = 1 /\ handleAssign(id, which, t)
  \/ \E id \in DOMAIN matches, w \in Teams : Begin(id, 0, w)
  \/ \E i \in DOMAIN req : DeleteStep(i)
  \/ \E i \in DOMAIN req : InsertStep(i)
  \/ \E i \in DOMAIN req : ReadStep(i)
  \/ \E i \in DOMAIN req : UpdateStep(i)
  \/ \E i \in DOMAIN req : NextStep(i)
  \/ \E i \in DOMAIN req : WriteStep(i)
  \/ \E i \in DOMAIN req : CreateStep(i)

SpecRace == Init /\ [][NextRace]_vars

\* C14: no two playoff matches share a (playoff_round, bracket_pos), also
\* when a map save and the bracket editor work on the same position at the
\* same time.
C14_OneMatchPerSlot ==
  \A i, j \in DOMAIN matches :
    (/\ matches[i].match_type = "playoff" /\ matches[j].match_type = "playoff"
     /\ matches[i].playoff_round = matches[j].playoff_round
     /\ matches[i].bracket_pos = matches[j].bracket_pos)
    => i = j

\* ================================================ the fixed topology
\* rounds list of the playoffs page and of the bracket editor
LastRound == 5
SlotsOf(round) ==
  CASE round = 1 -> 8 [] round = 2 -> 8 [] round = 3 -> 4
    [] round = 4 -> 2 [] round = 5 -> 1 [] OTHER -> 0

\* A bye team seeded once, at the first or at the last round-2 position, and
\* the results of its matches entered round after round up to the final.
DeepPos == {1, Round1Slots}
ByeAt(p) == [i \in 1..Round1Slots |-> IF i = p THEN 1 ELSE NULL]

SaveDeep(matchId, winner_id) ==
  /\ matchId \in DOMAIN matches
  /\ matches[matchId].match_type = "playoff"
  /\ matches[matchId].playoff_round <= LastRound
  /\ matches[matchId].bracket_pos \in DeepPos
  /\ ServeSave(matchId, 0, winner_id)

NextDeep ==
  \/ matches = <<>> /\ \E p \in DeepPos : SeedRound2Byes(ByeAt(p))
  \/ \E id \in DOMAIN matches, w \in Teams : SaveDeep(id, w)

SpecDeep == Init /\ [][NextDeep]_vars

\* C13: no playoff match lies beyond the final: playoff_round never exceeds 5.
C13_NothingBeyondFinal ==
  \A n \in DOMAIN matches :
    matches[n].match_type = "playoff" => matches[n].playoff_round <= LastRound

\* C15: every playoff match lies inside the topology: its round is in 1..5
\* and its position in 1..slot count of the round (8, 8, 4, 2, 1).
C15_InsideTopology ==
  \A n \in DOMAIN matches :
    matches[n].match_type = "playoff" =>
      /\ matches[n].playoff_round \in 1..LastRound
      /\ matches[n].bracket_pos \in 1..SlotsOf(matches[n].playoff_round)

\* ============================================ Create Round 1 Matches
\* The button pressed on a bracket that already holds round-1 matches at
\* some positions (rows of the shape the button itself inserts).
RECURSIVE Round1Rows(_, _)
Round1Rows(S, i) ==
  IF i > Round1Slots THEN <<>>
  ELSE (IF i \in S THEN <<i>> ELSE <<>>) \o Round1Rows(S, i + 1)

Round1Inputs ==
  {[k \in DOMAIN Round1Rows(S, 1) |->
      NewMatch("playoff", NULL, NULL, 1, Round1Rows(S, 1)[k], 0) @@ [id |-> k]] :
     S \in SUBSET (1..Round1Slots)}

InitRound1 ==
  /\ teams = TeamRows
  /\ matches \in Round1Inputs
  /\ match_maps = <<>>
  /\ standings = <<>>
  /\ last = NoRequest
  /\ req = <<>>
  /\ buckets = <<>> /\ now = 0

SpecRound1 == InitRound1 /\ [][CreateRound1Matches]_vars

Round1At(p) ==
  {n \in DOMAIN matches : /\ matches[n].match_type = "playoff"
                          /\ matches[n].playoff_round = 1
                          /\ matches[n].bracket_pos = p}

PollRuns == 3

\* the successor row a proposal is about (the first of the slot), 0 if none
slotMatch(ms, round, pos) ==
  LET rows == {n \in DOMAIN ms : /\ ms[n].match_type = "playoff"
                                 /\ ms[n].playoff_round = round
                                 /\ ms[n].bracket_pos = pos}
  IN IF rows = {} THEN 0 ELSE CHOOSE n \in rows : \A k \in rows : n <= k

proposal(m, side) ==
  [round |-> m.playoff_round + 1, pos |-> m.bracket_pos,
   team |-> m.winner_id, side |-> side]

proposalFor_IgnoresFullSlot(ms, m) ==
  LET n == slotMatch(ms, m.playoff_round + 1, m.bracket_pos)
  IN IF n = 0 THEN <<proposal(m, "team1_id")>>
     ELSE IF ms[n].team1_id = NULL THEN <<proposal(m, "team1_id")>>
     ELSE <<proposal(m, "team2_id")>>

proposalFor(ms, m) ==
  LET n == slotMatch(ms, m.playoff_round + 1, m.bracket_pos)
  IN IF n = 0 THEN <<proposal(m, "team1_id")>>
     ELSE IF ms[n].team1_id = NULL THEN <<proposal(m, "team1_id")>>
     ELSE IF ms[n].team2_id = NULL THEN <<proposal(m, "team2_id")>>
     ELSE <<>>

RECURSIVE scanFrom(_, _)
scanFrom(ms, i) ==
  IF i > Len(ms) THEN <<>>
  ELSE (IF /\ ms[i].match_type = "playoff" /\ ms[i].status = "completed"
           /\ ms[i].winner_id # NULL
        THEN proposalFor(ms, ms[i]) ELSE <<>>) \o scanFrom(ms, i + 1)

computeBracketAdvancements(ms) == scanFrom(ms, 1)

\* one proposal applied against the rows as they are now
applyOne(ms, a) ==
  LET n == slotMatch(ms, a.round, a.pos)
  IN IF n = 0
     THEN InsertMatch(ms, NewMatch("playoff", a.team, NULL, a.round, a.pos, 0))
     ELSE IF a.side = "team1_id" /\ ms[n].team1_id = NULL
          THEN UpdateMatch(ms, n, [team1_id |-> a.team])
     ELSE IF a.side = "team2_id" /\ ms[n].team2_id = NULL
          THEN UpdateMatch(ms, n, [team2_id |-> a.team])
     ELSE ms

RECURSIVE applyBracketAdvancements(_, _)
applyBracketAdvancements(ms, acts) ==
  IF acts = <<>> THEN ms
  ELSE applyBracketAdvancements(applyOne(ms, Head(acts)), Tail(acts))

\* one firing of the interval: compute, and apply when there is a proposal
pollRun(ms) ==
  LET acts == computeBracketAdvancements(ms)
  IN IF Len(acts) > 0 THEN applyBracketAdvancements(ms, acts) ELSE ms

RECURSIVE pollRuns(_, _)
pollRuns(ms, k) == IF k = 0 THEN ms ELSE pollRuns(pollRun(ms), k - 1)

Poll ==
  /\ matches' = pollRun(matches)
  /\ last' = [op |-> "poll", id |-> 0, adv |-> <<>>,
              side |-> IF matches' # matches THEN "applied" ELSE "none"]
  /\ UNCHANGED <<mwvars, teams, match_maps, standings, req>>

\* The bracket editor, the results of the playoff matches and the poller.
NextPoll ==
  \/ CreateRound1Matches
  \/ \E b \in ByeInputs : SeedRound2Byes(b)
  \/ \E id \in DOMAIN matches, which \in {"team1_id", "team2_id"}, t \in Teams :
       handleAssign(id, which, t)
  \/ \E id \in DOMAIN matches, idx \in MapIndexes, w \in {NULL} \cup Teams :
       SaveMap(id, idx, w)
  \/ Poll

SpecPoll == Init /\ [][NextPoll]_vars

\* C19: from any bracket, with the completed matches left as they are, the
\* poller reaches within PollRuns firings a bracket for which the scan returns
\* no proposal, and every further firing leaves that bracket as it is.
C19_PollerConverges ==
  LET s == pollRuns(matches, PollRuns)
  IN /\ computeBracketAdvancements(s) = <<>>
     /\ pollRun(s) = s
     /\ pollRuns(matches, PollRuns + 1) = s

\* the poller has just filled a slot and has nothing left to propose, with a
\* completed match in the bracket
C19_Witness ==
  /\ last.op = "poll" /\ last.side = "applied"
  /\ computeBracketAdvancements(matches) = <<>>
  /\ \E n \in DOMAIN matches : matches[n].status = "completed" /\ matches[n].winner_id # NULL

\* ================================================ ranking order (inputs)
\* A league of RankTeams teams with up to RankMatches results stored on the
\* match rows: narrow losses worth the capped 12 points with different round
\* differences, and clear results.
RankTeams == 3
RankMatches == 2
RankScores == {<<0, 0>>, <<12, 13>>, <<13, 15>>, <<13, 5>>, <<5, 13>>}

RankTeamRows == [i \in 1..RankTeams |-> [id |-> i, group_name |-> "A"]]

RankMatchDomain ==
  {MatchRow(a, b, "regular", st, sc, 0, 0) :
     a \in 1..RankTeams, b \in 1..RankTeams, st \in {"scheduled", "completed"},
     sc \in RankScores}

RankMatchInputs ==
  {WithIds(q) : q \in {s \in SeqsUpTo({m \in RankMatchDomain : m.team1_id < m.team2_id},
                                      RankMatches) : Fixtures(s)}}

InitRank ==
  /\ teams = RankTeamRows
  /\ matches \in RankMatchInputs
  /\ match_maps = <<>>
  /\ standings = <<>>
  /\ last = NoRequest /\ req = <<>>
  /\ buckets = <<>> /\ now = 0

SpecRank == InitRank /\ [][LoadStandings]_vars

C21_EveryTeamHasARow ==
  Loaded =>
    /\ Len(standings) = Len(teams)
    /\ \A i \in DOMAIN teams :
         Cardinality({k \in DOMAIN standings : standings[k].id = teams[i].id}) = 1
    /\ \A k \in DOMAIN standings :
         SidesOf(standings[k].id, {i \in Counted : played(matches[i], match_maps)}) = {}
           => /\ standings[k].played = 0 /\ standings[k].wins = 0
              /\ standings[k].losses = 0 /\ standings[k].points = 0
              /\ standings[k].pd = 0

\* a team whose only match is a completed 1-0 against a team that is not in
\* the input, listed with zeros
C21_Witness ==
  /\ Loaded
  /\ \E i \in DOMAIN matches :
       /\ matches[i].match_type = "regular" /\ matches[i].status = "completed"
       /\ matches[i].score_t1 = 1 /\ matches[i].score_t2 = 0
       /\ Listed(matches[i].team1_id) /\ ~Listed(matches[i].team2_id)
       /\ \E k \in DOMAIN standings :
            /\ standings[k].id = matches[i].team1_id
            /\ standings[k].played = 0 /\ standings[k].points = 0

\* ================================================ team detail page
\* getServerSideProps of pages/teams/[id].tsx: the matches with the team on
\* either side, tallied from the stored score_t1/score_t2.
playedMask(m) == ToLower(m.status) = "completed" \/ m.score_t1 + m.score_t2 > 0

RECURSIVE teamTally(_, _, _)
teamTally(id, ms, i) ==
  IF i > Len(ms) THEN [played |-> 0, wins |-> 0, losses |-> 0, points |-> 0, pd |-> 0]
  ELSE LET m == ms[i]
           rest == teamTally(id, ms, i + 1)
           ours == m.team1_id = id
           my == IF ours THEN m.score_t1 ELSE m.score_t2
           op == IF ours THEN m.score_t2 ELSE m.score_t1
       IN IF (m.team1_id = id \/ m.team2_id = id) /\ playedMask(m)
          THEN [played |-> rest.played + 1,
                wins |-> rest.wins + (IF my > op THEN 1 ELSE 0),
                losses |-> rest.losses + (IF op > my THEN 1 ELSE 0),
                points |-> rest.points + (IF my > op THEN 15 ELSE Min(my, 12)),
                pd |-> rest.pd + (my - op)]
          ELSE rest

metrics(id, ms) == teamTally(id, ms, 1)

\* the page of team id requested: the team row is found, the metrics shown
LoadTeam(id) ==
  /\ Listed(id)
  /\ last' = [op |-> "teamPage", id |-> id, adv |-> metrics(id, matches), side |-> "none"]
  /\ UNCHANGED <<mwvars, dbvars, standings, req>>

NextPages ==
  \/ LoadStandings
  \/ \E id \in 1..MaxTeams : LoadTeam(id)

SpecPages == InitStandings /\ [][NextPages]_vars

\* C22: with both pages loaded from the same tables, the played, wins,
\* losses, points and pd shown on a team's page are those of the team's row
\* of the standings table.
C22_TeamPageAgrees ==
  (Loaded /\ last.op = "teamPage") =>
    \A k \in DOMAIN standings :
      standings[k].id = last.id =>
        /\ standings[k].played = last.adv.played
        /\ standings[k].wins = last.adv.wins
        /\ standings[k].losses = last.adv.losses
        /\ standings[k].points = last.adv.points
        /\ standings[k].pd = last.adv.pd

\* ================================== results as a projection of the map rows
\* Round 1 created and the two teams of its first match assigned; from there
\* only map results are saved.
OrderBracket ==
  UpdateMatch(BulkInsert(<<>>, 1, Round1Slots), 1, [team1_id |-> 1, team2_id |-> 2])

InitOrder ==
  /\ teams = TeamRows
  /\ matches = OrderBracket
  /\ match_maps = <<>>
  /\ standings = <<>>
  /\ last = NoRequest
  /\ req = <<>>
  /\ buckets = <<>> /\ now = 0

NextOrder ==
  \E id \in DOMAIN matches, idx \in MapIndexes, w \in {NULL} \cup Teams :
    SaveMap(id, idx, w)

SpecOrder == InitOrder /\ [][NextOrder]_vars

\* the tables after one request served on the tables st
served(st, matchId, index, winner_id) ==
  LET maps1 == InsertMap(DeleteMap(st.maps, matchId, index), matchId, index, winner_id)
      mi == st.ms[matchId]
      p == payload(allMaps(maps1, matchId), mi)
      ms1 == UpdateMatch(st.ms, matchId, p)
      nxt == nextMatch(ms1, roundOf(mi), posOf(mi))
  IN [maps |-> maps1,
      ms |-> IF Advances(mi, p)
             THEN IF nxt # {}
                  THEN writeNext(ms1, ms1[CHOOSE n \in nxt : \A k \in nxt : n <= k], p.winner_id)
                  ELSE insertNext(ms1, mi, p.winner_id)
             ELSE ms1]

\* the stored map rows saved once each, in (match, index) order
RECURSIVE savedInOrder(_, _, _)
savedInOrder(st, rows, i) ==
  IF i > Len(rows) THEN st
  ELSE savedInOrder(served(st, rows[i].match_id, rows[i].map_index, rows[i].winner_id),
                    rows, i + 1)

slots(ms) ==
  {<<ms[n].playoff_round, ms[n].bracket_pos, ms[n].team1_id, ms[n].team2_id>> :
     n \in {k \in DOMAIN ms : ms[k].match_type = "playoff"}}

\* C23: whatever the saves that led to the stored map rows, the match rows
\* and the teams of every slot are those reached by saving exactly the stored
\* rows once each.
C23_OrderIndependent ==
  LET once == savedInOrder([maps |-> <<>>, ms |-> OrderBracket], match_maps, 1)
  IN /\ once.maps = match_maps
     => /\ \A n \in DOMAIN OrderBracket : matches[n] = once.ms[n]
        /\ slots(matches) = slots(once.ms)

\* ================================================ the page loaded again
\* The tables have no row order of their own: a later request may receive the
\* same rows in another order.
Reordered(s) ==
  {[i \in DOMAIN s |-> s[f[i]]] :
     f \in {g \in [DOMAIN s -> DOMAIN s] : \A i, j \in DOMAIN s : g[i] = g[j] => i = j}}

Reload ==
  /\ Loaded
  /\ \E ts \in Reordered(teams), ms \in Reordered(matches), maps \in Reordered(match_maps) :
       standings' = computeStandings(ts, ms, maps)
  /\ last' = [op |-> "reload", id |-> 0, adv |-> <<>>, side |-> "none"]
  /\ UNCHANGED <<mwvars, dbvars, req>>

NextReload == LoadStandings \/ Reload

SpecReload == InitRank /\ [][NextReload]_vars

AgainstScores == {<<0, 0>>, <<13, 11>>, <<14, 12>>, <<11, 13>>, <<12, 14>>}

AgainstMatchInputs ==
  {WithIds(q) :
     q \in {s \in SeqsUpTo({m \in {MatchRow(a, b, "regular", st, sc, 0, 0) :
                                      a \in 1..RankTeams, b \in 1..RankTeams,
                                      st \in {"scheduled", "completed"},
                                      sc \in AgainstScores} : m.team1_id < m.team2_id},
                           RankMatches) : Fixtures(s)}}

InitAgainst ==
  /\ teams = RankTeamRows
  /\ matches \in AgainstMatchInputs
  /\ match_maps = <<>>
  /\ standings = <<>>
  /\ last = NoRequest /\ req = <<>>
  /\ buckets = <<>> /\ now = 0

SpecAgainst == InitAgainst /\ [][LoadStandings]_vars

\* rounds lost by team t over its played matches
PointsAgainst(t) ==
  LET S == SidesOf(t, {i \in Counted : played(matches[i], match_maps)})
  IN SumOver(S, [sd \in S |-> Opp(sd)])

\* C25: of two teams level on points, the one with fewer rounds lost over
\* its played matches stands higher in the table.
C25_LowerPointsAgainstFirst ==
  Loaded =>
    \A i, j \in DOMAIN standings :
      (/\ standings[i].points = standings[j].points
       /\ PointsAgainst(standings[i].id) < PointsAgainst(standings[j].id))
      => i < j

\* ================================================ forfeit of a playoff match
\* A bot match request opened in the score editor selects the scheduled
\* match between the two named teams, whatever its week or type; the forfeit
\* is then saved for it as for any match.
ForfeitSelected(matchId, cleared) ==
  /\ matchId \in DOMAIN matches
  /\ matches[matchId].status = "scheduled"
  /\ matches[matchId].team1_id # NULL /\ matches[matchId].team2_id # NULL
  /\ match_maps' = IF cleared
                   THEN SelectSeq(match_maps, LAMBDA r : r.match_id # matchId)
                   ELSE match_maps
  /\ matches' = UpdateMatch(matches, matchId,
                  [score_t1 |-> 13, score_t2 |-> 0,
                   winner_id |-> matches[matchId].team1_id,
                   status |-> "completed", maps_played |-> 0, is_forfeit |-> 1])
  /\ last' = [op |-> "forfeit", id |-> matchId, adv |-> <<>>, side |-> "none"]
  /\ UNCHANGED <<mwvars, teams, standings, req>>

NextForfeit ==
  \/ \E id \in DOMAIN matches, c \in BOOLEAN : ForfeitSelected(id, c)
  \/ \E id \in DOMAIN matches, idx \in MapIndexes, w \in {NULL} \cup Teams :
       SaveMap(id, idx, w)

SpecForfeit == InitOrder /\ [][NextForfeit]_vars

\* C26: right after a playoff match is resolved by forfeit, its successor
\* slot exists and holds the winner on one side, or has no empty side.
C26_ForfeitAdvances ==
  (last.op = "forfeit" /\ matches[last.id].match_type = "playoff") =>
    \E n \in Successors(last.id) :
      \/ matches[last.id].winner_id \in {matches[n].team1_id, matches[n].team2_id}
      \/ (matches[n].team1_id # NULL /\ matches[n].team2_id # NULL)

\* ================================================ the first six of a group
\* position of row k among the rows of its own group, as the page lists them
GroupRank(k) ==
  Cardinality({j \in 1..k : standings[j].group_name = standings[k].group_name})

\* C27: a team among the first six rows of its own group is not flagged
\* eliminated.
C27_FirstSixNotEliminated ==
  Loaded =>
    \A k \in DOMAIN standings :
      GroupRank(k) <= 6 => ~standings[k].eliminated

\* ================================================ round differences
\* C28: the round differences of all rows of the table add up to 0.
C28_PdSumsToZero ==
  Loaded =>
    SumOver(DOMAIN standings, [k \in DOMAIN standings |-> standings[k].pd]) = 0

\* a table with a played match scored from its map row on one side and from
\* the stored score on the other, the two rows at +d and -d
C28_Witness ==
  /\ Loaded
  /\ \E i \in Counted :
       /\ MapRowsOf(matches[i].id) # {}
       /\ Res1(i) # matches[i].score_t1 /\ Res2(i) = matches[i].score_t2
  /\ \E a, b \in DOMAIN standings :
       standings[a].pd > 0 /\ standings[b].pd = 0 - standings[a].pd

\* ================================================ two map saves in flight
\* One league match scheduled; up to InFlight map-save requests for it are
\* served at the same time, their awaits interleaved.
InFlight == 2

InitTwo ==
  /\ teams = TeamRows
  /\ matches = InsertMatch(<<>>, NewMatch("regular", 1, 2, NULL, NULL, 1))
  /\ match_maps = <<>>
  /\ standings = <<>>
  /\ last = NoRequest
  /\ req = <<>>
  /\ buckets = <<>> /\ now = 0

\* a request arrives while others may be in flight (line 20 passed)
Arrive(matchId, index, winner_id) ==
  /\ Len(req) < InFlight
  /\ Scorable(matchId)
  /\ req' = Append(req, [pc |-> "delete", matchId |-> matchId, index |-> index,
                         winner_id |-> winner_id, matchInfo |-> NoRow,
                         payload |-> NoRow, nm |-> NoRow])
  /\ UNCHANGED <<mwvars, dbvars, standings, last>>

NextTwo ==
  \/ \E id \in DOMAIN matches, idx \in MapIndexes, w \in Teams : Arrive(id, idx, w)
  \/ \E i \in DOMAIN req : DeleteStep(i)
  \/ \E i \in DOMAIN req : InsertStep(i)
  \/ \E i \in DOMAIN req : ReadStep(i)
  \/ \E i \in DOMAIN req : UpdateStep(i)

SpecTwo == InitTwo /\ [][NextTwo]_vars

\* C29: with no request in flight, every (match, map_index) has at most one
\* stored map row and maps_played of the match is the number of its rows.
C29_OneRowPerMapAndCount ==
  req = <<>> =>
    /\ \A a, b \in DOMAIN match_maps :
         (/\ match_maps[a].match_id = match_maps[b].match_id
          /\ match_maps[a].map_index = match_maps[b].map_index) => a = b
    /\ \A id \in DOMAIN matches :
         matches[id].maps_played = Cardinality(StoredRows(id))

\* ================================================ middleware.ts
\* Time is counted in minutes: the two windows are 10 * 60 * 1000 ms and
\* 60 * 1000 ms. A bucket key `${ip}:${key}` is the pair <<ip, key>>.
LoginLimit == 5
LoginWindow == 10
GithubLimit == 60
GithubWindow == 1

MaxTime == 11
MaxIps == 1
Ips == 1..MaxIps
Paths == {"/api/admin/login", "/api/github/matches", "/api/admin/maps/save"}

\* allow() letting a request through also when the count is at the limit
allow_AtLimitToo(bk, k, limit, windowMs, t) ==
  IF k \notin DOMAIN bk \/ t > bk[k].reset
  THEN [ok |-> TRUE,
        buckets |-> [x \in DOMAIN bk \cup {k} |->
                       IF x = k THEN [count |-> 1, reset |-> t + windowMs] ELSE bk[x]]]
  ELSE IF bk[k].count <= limit
       THEN [ok |-> TRUE, buckets |-> [bk EXCEPT ![k].count = @ + 1]]
       ELSE [ok |-> FALSE, buckets |-> bk]

\* allow(ip, key, limit, windowMs) at time t on the buckets bk: the answer and
\* the buckets afterwards
allow(bk, k, limit, windowMs, t) ==
  IF k \notin DOMAIN bk \/ t > bk[k].reset
  THEN [ok |-> TRUE,
        buckets |-> [x \in DOMAIN bk \cup {k} |->
                       IF x = k THEN [count |-> 1, reset |-> t + windowMs] ELSE bk[x]]]
  ELSE IF bk[k].count < limit
       THEN [ok |-> TRUE, buckets |-> [bk EXCEPT ![k].count = @ + 1]]
       ELSE [ok |-> FALSE, buckets |-> bk]

\* path.startsWith(...) of the two limited prefixes
keyOf(path) ==
  CASE path = "/api/admin/login" -> "admin-login"
    [] path = "/api/github/matches" -> "github"
    [] OTHER -> "none"
limitOf(key) == IF key = "admin-login" THEN LoginLimit ELSE GithubLimit
windowOf(key) == IF key = "admin-login" THEN LoginWindow ELSE GithubWindow

\* middleware(req): 429 when the bucket of the path refuses, else next()
middleware(ip, path) ==
  LET key == keyOf(path)
      r == allow(buckets, <<ip, key>>, limitOf(key), windowOf(key), now)
  IN /\ IF key = "none"
        THEN buckets' = buckets /\ last' = [op |-> "request", id |-> 200, adv |-> <<>>, side |-> "none"]
        ELSE /\ buckets' = r.buckets
             /\ last' = [op |-> "request", id |-> IF r.ok THEN 200 ELSE 429,
                         adv |-> <<>>, side |-> "none"]
     /\ UNCHANGED <<dbvars, standings, req, now>>

\* the clock moves on
Tick ==
  /\ now < MaxTime
  /\ now' = now + 1
  /\ UNCHANGED <<dbvars, standings, last, req, buckets>>

NextLimit ==
  \/ Tick
  \/ \E ip \in Ips, path \in Paths : middleware(ip, path)

SpecLimit == Init /\ [][NextLimit]_vars

\* C30: a bucket never counts more than its limit; a request finding the
\* count at the limit before or at the reset time is answered 429 and leaves
\* the bucket as it is; a request after the reset time, or the first for its
\* key, is let through and opens a window with count 1; any other request is
\* let through and counted.
C30_AtMostLimitPerWindow ==
  /\ [](\A k \in DOMAIN buckets : buckets[k].count <= limitOf(k[2]))
  /\ [][\A ip \in Ips, path \in Paths :
          (keyOf(path) # "none" /\ middleware(ip, path)) =>
            LET k == <<ip, keyOf(path)>>
            IN IF k \notin DOMAIN buckets \/ now > buckets[k].reset
               THEN /\ last'.id = 200
                    /\ buckets'[k] = [count |-> 1, reset |-> now + windowOf(k[2])]
               ELSE IF buckets[k].count >= limitOf(k[2])
                    THEN last'.id = 429 /\ buckets' = buckets
                    ELSE /\ last'.id = 200
                         /\ buckets'[k] = [buckets[k] EXCEPT !.count = @ + 1]]_vars

\* a login attempt refused with the count at the limit, in a window that was
\* opened after time 0
C30_Witness ==
  /\ last.op = "request" /\ last.id = 429
  /\ <<1, "admin-login">> \in DOMAIN buckets
  /\ buckets[<<1, "admin-login">>].count = LoginLimit
  /\ buckets[<<1, "admin-login">>].reset > LoginWindow

====
